---------------------------- MODULE Spec2Model ----------------------------
(***************************************************************************)
(* A model of utf8-parser (src/src/lib.rs, src/src/error.rs): the byte     *)
(* classifier Utf8ByteType / ParsedByte and the push-one-byte state        *)
(* machine Utf8Parser.  Characters are modelled by their code points,      *)
(* u8 / u32 values by naturals kept to their width.                        *)
(***************************************************************************)
EXTENDS Naturals, Sequences, FiniteSets

(***************************************************************************)
(* Bounds of the model.                                                    *)
(***************************************************************************)
\* Input bytes are those within ByteSpread of a boundary byte (SampleBytes).
ByteSpread == 0
\* Scalars of a round trip are those within ScalarSpread of a boundary scalar.
ScalarSpread == 1
\* The longest string (in scalars) of a round trip.
MaxLen == 2
\* the longest run of pushes returning none that is counted
MaxRun == 4

(***************************************************************************)
(* Fixed-width arithmetic.                                                 *)
(***************************************************************************)
U8 == 256
\* the width of a u32, in bits
U32_BITS == 32

\* x >> n
Shr(x, n) == x \div (2 ^ n)

\* x << n on a u32, for 0 < n < 32: the bits shifted out at the top are lost
Shl32(x, n) == (x % (2 ^ (U32_BITS - n))) * (2 ^ n)

RECURSIVE BitAnd(_, _)
BitAnd(a, b) ==
    IF a = 0 \/ b = 0 THEN 0
    ELSE 2 * BitAnd(a \div 2, b \div 2) + (IF a % 2 = 1 /\ b % 2 = 1 THEN 1 ELSE 0)

RECURSIVE BitOr(_, _)
BitOr(a, b) ==
    IF a = 0 THEN b
    ELSE IF b = 0 THEN a
    ELSE 2 * BitOr(a \div 2, b \div 2) + (IF a % 2 = 1 \/ b % 2 = 1 THEN 1 ELSE 0)

RECURSIVE count_ones(_)
count_ones(x) == IF x = 0 THEN 0 ELSE (x % 2) + count_ones(x \div 2)

(***************************************************************************)
(* Constants of the program.                                               *)
(***************************************************************************)
FIRST_CODE_POINT_FOR_DOUBLE == \h80
FIRST_CODE_POINT_FOR_TRIPLE == \h800
FIRST_CODE_POINT_FOR_QUADRUPLE == \h10000

(***************************************************************************)
(* Utf8ParserError: the five error kinds with what each carries.           *)
(***************************************************************************)
InvalidByte(b) == [kind |-> "InvalidByte", val |-> b]
InvalidChar(w) == [kind |-> "InvalidChar", val |-> w]
UnexpectedStartByte(b) == [kind |-> "UnexpectedStartByte", val |-> b]
UnexpectedContinuationByte(b) == [kind |-> "UnexpectedContinuationByte", val |-> b]
OverlongEncoding == [kind |-> "OverlongEncoding"]

\* Result<T, Utf8ParserError> and Option<char>
Ok(v) == [ok |-> TRUE, val |-> v]
Err(e) == [ok |-> FALSE, err |-> e]
None == [some |-> FALSE]
Some(c) == [some |-> TRUE, char |-> c]

(***************************************************************************)
(* Utf8ByteType                                                            *)
(***************************************************************************)
\* The order in which Utf8ByteType::of tries the kinds.
kinds == <<"Continuation", "Single", "Double", "Triple", "Quadruple">>

id(kind) ==
    CASE kind = "Single" -> \b0
      [] kind = "Continuation" -> \b10
      [] kind = "Double" -> \b110
      [] kind = "Triple" -> \b1110
      [] kind = "Quadruple" -> \b11110

\* id_length that leaves out the 0 bit which ends the prefix
id_length_short(kind) == count_ones(id(kind))

\* Utf8ByteType::id_length
id_length(kind) == count_ones(id(kind)) + 1

value_mask(kind) == Shr(\hFF, id_length(kind))

value_mask_length(kind) == count_ones(value_mask(kind))

matches(kind, byte) == Shr(byte, value_mask_length(kind)) = id(kind)

\* The while loop of Utf8ByteType::of, from index i on.
RECURSIVE of_loop(_, _)
of_loop(byte, i) ==
    IF i <= Len(kinds)
    THEN IF matches(kinds[i], byte) THEN Ok(kinds[i]) ELSE of_loop(byte, i + 1)
    ELSE Err(InvalidByte(byte))

\* A classifier that takes every byte it cannot place for a Quadruple start.
of_lenient(byte) ==
    IF of_loop(byte, 1).ok THEN of_loop(byte, 1) ELSE Ok("Quadruple")

\* Utf8ByteType::of
of(byte) == of_loop(byte, 1)

(***************************************************************************)
(* ParsedByte                                                              *)
(***************************************************************************)
ParsedByte(variant, value) == [variant |-> variant, value |-> value]

\* from_byte that hands the whole byte on as the value
from_byte_unmasked(byte) ==
    LET kind == of(byte) IN
    IF ~kind.ok THEN Err(kind.err)
    ELSE Ok(CASE kind.val = "Continuation" -> ParsedByte("ContinuationByte", byte)
              [] kind.val = "Single" -> ParsedByte("Single", byte)
              [] kind.val = "Double" -> ParsedByte("StartDouble", byte)
              [] kind.val = "Triple" -> ParsedByte("StartTriple", byte)
              [] kind.val = "Quadruple" -> ParsedByte("StartQuadruple", byte))

\* ParsedByte::from_byte
from_byte(byte) ==
    LET kind == of(byte) IN
    IF ~kind.ok THEN Err(kind.err)
    ELSE LET value == BitAnd(byte, value_mask(kind.val)) IN
         Ok(CASE kind.val = "Continuation" -> ParsedByte("ContinuationByte", value)
              [] kind.val = "Single" -> ParsedByte("Single", value)
              [] kind.val = "Double" -> ParsedByte("StartDouble", value)
              [] kind.val = "Triple" -> ParsedByte("StartTriple", value)
              [] kind.val = "Quadruple" -> ParsedByte("StartQuadruple", value))

\* ParsedByte::from_byte of every u8, computed once.
parsed_bytes == [b \in 0 .. (U8 - 1) |-> from_byte(b)]

\* Utf8ByteType::Continuation.value_mask_length(), computed once.
\* continuation bytes taken to carry as many bits as an ASCII byte
continuation_bits_wide == value_mask_length("Single")

continuation_bits == value_mask_length("Continuation")

(***************************************************************************)
(* State and push_byte                                                     *)
(***************************************************************************)
Fresh == [tag |-> "Fresh"]
OneLeft(acc) == [tag |-> "OneLeft", acc |-> acc]
TwoLeft(acc) == [tag |-> "TwoLeft", acc |-> acc]
ThreeLeft(acc) == [tag |-> "ThreeLeft", acc |-> acc]

\* The two debug_assert!s at the head of push_byte.
push_byte_asserts(current, byte) ==
    current <= \h00FFFFFF /\ byte <= \b00111111

\* x << n on a u32 is a defined shift (n < 32) that shifts no set bit out.
shl_keeps(x, n) == n < U32_BITS /\ x < 2 ^ (U32_BITS - n)

\* push_byte that forgets to make room for the new bits
push_byte_unshifted(current, byte) == BitOr(current, byte)

push_byte(current, byte) ==
    BitOr(Shl32(current, continuation_bits), byte)

\* char::from_u32: a char for a Unicode scalar value, nothing otherwise.
char_from_u32(val) ==
    IF val <= \h10FFFF /\ ~(val >= \hD800 /\ val <= \hDFFF) THEN Some(val) ELSE None

(***************************************************************************)
(* Utf8Parser::push_inner_impl, one operator per match arm.  Each yields   *)
(* the state the arm leaves in self.state and the value it returns.        *)
(***************************************************************************)
Step(state, ret) == [state |-> state, ret |-> ret]

\* arm_one_left without the test against FIRST_CODE_POINT_FOR_DOUBLE
arm_one_left_unchecked(current, value) ==
    LET val == push_byte(current, value) IN
    IF char_from_u32(val).some
    THEN Step(Fresh, Ok(Some(val)))
    ELSE Step(Fresh, Err(InvalidChar(val)))

\* arm_one_left with every assembled value turned into a char
arm_one_left_any_char(current, value) ==
    LET val == push_byte(current, value) IN
    IF val < FIRST_CODE_POINT_FOR_DOUBLE
    THEN Step(Fresh, Err(OverlongEncoding))
    ELSE Step(Fresh, Ok(Some(val)))

\* arm_one_left without the assignment of State::Fresh
arm_one_left_stale(current, value) ==
    LET val == push_byte(current, value) IN
    IF val < FIRST_CODE_POINT_FOR_DOUBLE
    THEN Step(OneLeft(current), Err(OverlongEncoding))
    ELSE IF char_from_u32(val).some
         THEN Step(OneLeft(current), Ok(Some(val)))
         ELSE Step(OneLeft(current), Err(InvalidChar(val)))

\* (State::OneLeft(current), ParsedByte::ContinuationByte(value))
arm_one_left(current, value) ==
    LET val == push_byte(current, value) IN
    IF val < FIRST_CODE_POINT_FOR_DOUBLE
    THEN Step(Fresh, Err(OverlongEncoding))
    ELSE IF char_from_u32(val).some
         THEN Step(Fresh, Ok(Some(val)))
         ELSE Step(Fresh, Err(InvalidChar(val)))

\* arm_two_left without the test against FIRST_CODE_POINT_FOR_TRIPLE
arm_two_left_unchecked(current, value) ==
    Step(OneLeft(push_byte(current, value)), Ok(None))

\* arm_two_left that goes on awaiting two continuation bytes
arm_two_left_stuck(current, value) ==
    LET val == push_byte(current, value) IN
    IF Shl32(val, continuation_bits) < FIRST_CODE_POINT_FOR_TRIPLE
    THEN Step(TwoLeft(current), Err(OverlongEncoding))
    ELSE Step(TwoLeft(val), Ok(None))

\* (State::TwoLeft(current), ParsedByte::ContinuationByte(value))
arm_two_left(current, value) ==
    LET val == push_byte(current, value) IN
    IF Shl32(val, continuation_bits) < FIRST_CODE_POINT_FOR_TRIPLE
    THEN Step(TwoLeft(current), Err(OverlongEncoding))
    ELSE Step(OneLeft(val), Ok(None))

\* arm_three_left without the test against FIRST_CODE_POINT_FOR_QUADRUPLE
arm_three_left_unchecked(current, value) ==
    Step(TwoLeft(push_byte(current, value)), Ok(None))

\* (State::ThreeLeft(current), ParsedByte::ContinuationByte(value))
arm_three_left(current, value) ==
    LET val == push_byte(current, value) IN
    IF Shl32(val, 2 * continuation_bits) < FIRST_CODE_POINT_FOR_QUADRUPLE
    THEN Step(ThreeLeft(current), Err(OverlongEncoding))
    ELSE Step(TwoLeft(val), Ok(None))

\* arm_fresh_start with an ASCII byte kept pending like a start byte
arm_fresh_start_pending(parsed) ==
    Step(OneLeft(parsed.value), Ok(None))

\* (State::Fresh, Single | StartDouble | StartTriple | StartQuadruple)
arm_fresh_start(parsed) ==
    CASE parsed.variant = "Single" -> Step(Fresh, Ok(Some(parsed.value)))
      [] parsed.variant = "StartDouble" -> Step(OneLeft(parsed.value), Ok(None))
      [] parsed.variant = "StartTriple" -> Step(TwoLeft(parsed.value), Ok(None))
      [] parsed.variant = "StartQuadruple" -> Step(ThreeLeft(parsed.value), Ok(None))

\* (OneLeft | TwoLeft | ThreeLeft, Single | StartDouble | StartTriple | StartQuadruple)
arm_interrupted(state, parsed) ==
    Step(state, Err(UnexpectedStartByte(parsed.value)))

\* arm_fresh_continuation with the stray continuation byte dropped silently
arm_fresh_continuation_skipped(value) ==
    Step(Fresh, Ok(None))

\* (State::Fresh, ParsedByte::ContinuationByte(value))
arm_fresh_continuation(value) ==
    Step(Fresh, Err(UnexpectedContinuationByte(value)))

\* Utf8Parser::push_inner_impl
push_inner_impl(state, byte) ==
    LET parsed == parsed_bytes[byte] IN
    IF ~parsed.ok THEN Step(state, Err(parsed.err))
    ELSE LET p == parsed.val IN
         IF p.variant = "ContinuationByte"
         THEN CASE state.tag = "OneLeft" -> arm_one_left(state.acc, p.value)
                [] state.tag = "TwoLeft" -> arm_two_left(state.acc, p.value)
                [] state.tag = "ThreeLeft" -> arm_three_left(state.acc, p.value)
                [] state.tag = "Fresh" -> arm_fresh_continuation(p.value)
         ELSE IF state.tag = "Fresh"
              THEN arm_fresh_start(p)
              ELSE arm_interrupted(state, p)

\* a reset that leaves the state as it is
reset_keep(state) == state

\* Utf8Parser::reset
reset(state) == Fresh

\* What goes wrong in push_inner_impl(state, byte), if anything: "assert" when
\* a debug_assert! of push_byte fails (the program panics), "shift" when the
\* shift of push_byte or of an overlong test loses bits, "none" otherwise.
push_fault(state, byte) ==
    LET parsed == parsed_bytes[byte] IN
    IF ~parsed.ok \/ state.tag = "Fresh" THEN "none"
    ELSE IF parsed.val.variant # "ContinuationByte" THEN "none"
    ELSE IF ~push_byte_asserts(state.acc, parsed.val.value) THEN "assert"
    ELSE IF ~shl_keeps(state.acc, continuation_bits) THEN "shift"
    ELSE LET val == push_byte(state.acc, parsed.val.value) IN
         IF state.tag = "TwoLeft" /\ ~shl_keeps(val, continuation_bits) THEN "shift"
         ELSE IF state.tag = "ThreeLeft" /\ ~shl_keeps(val, 2 * continuation_bits)
              THEN "shift"
              ELSE "none"

\* push that hands the error on and leaves the state as push_inner_impl left it
push_no_reset(state, byte) == push_inner_impl(state, byte)

\* push that takes the byte which interrupted a sequence for the start of the next
push_restart(state, byte) ==
    LET r == push_inner_impl(state, byte) IN
    IF r.ret.ok THEN r
    ELSE IF r.ret.err.kind = "UnexpectedStartByte"
         THEN Step(push_inner_impl(reset(r.state), byte).state, r.ret)
         ELSE Step(reset(r.state), r.ret)

\* Utf8Parser::push
push(state, byte) ==
    LET r == push_inner_impl(state, byte) IN
    IF r.ret.ok THEN r ELSE Step(reset(r.state), r.ret)

\* Utf8Parser::new
new == Fresh

(***************************************************************************)
(* The input bytes of the model: every byte within ByteSpread of a byte    *)
(* at which the classification or a range check changes.                   *)
(***************************************************************************)
SampleBytes ==
    { \h00, \h61, \h7F,                    \* Single: lowest, b'a', highest
      \h80, \h8F, \h90, \h9F, \hA0, \hBF,  \* Continuation: payloads 0, F|10, 1F|20, 3F
      \hC0, \hC1, \hC2, \hDF,              \* Double: overlong leads, first valid, highest
      \hE0, \hE1, \hED, \hEF,              \* Triple: overlong lead, next, surrogate lead, highest
      \hF0, \hF1, \hF4, \hF7,              \* Quadruple: overlong lead, next, last valid lead, highest
      \hF8, \hFE, \hFF }                    \* no class

Near(x, S, d) == \E s \in S : x + d >= s /\ x <= s + d

Bytes == {b \in 0 .. (U8 - 1) : Near(b, SampleBytes, ByteSpread)}

(***************************************************************************)
(* The classes of bytes by their ranges, as UTF-8 defines them.            *)
(***************************************************************************)
IsAscii(b) == b < \h80
IsContinuation(b) == b >= \h80 /\ b <= \hBF
\* a byte of class Single, Double, Triple or Quadruple
IsStart(b) == b < \h80 \/ (b >= \hC0 /\ b <= \hF7)
IsUnclassified(b) == b >= \hF8 /\ b <= \hFF

(***************************************************************************)
(* The canonical UTF-8 encoding of a scalar value (what str::as_bytes      *)
(* yields for a one-char string).                                          *)
(***************************************************************************)
Utf8Encode(c) ==
    IF c < \h80 THEN <<c>>
    ELSE IF c < \h800 THEN <<\hC0 + (c \div 64), \h80 + (c % 64)>>
    ELSE IF c < \h10000
         THEN <<\hE0 + (c \div 4096), \h80 + ((c \div 64) % 64), \h80 + (c % 64)>>
         ELSE <<\hF0 + (c \div 262144), \h80 + ((c \div 4096) % 64),
                \h80 + ((c \div 64) % 64), \h80 + (c % 64)>>

(***************************************************************************)
(* The state: one parser with the record of its last push, the byte        *)
(* stream a caller feeds it, a pair of parsers fed side by side, and a     *)
(* byte classified on its own.                                             *)
(***************************************************************************)
VARIABLES
    state,     \* Utf8Parser.state
    byte,      \* the byte of the last push
    ret,       \* what the last push returned
    prev,      \* the state the last push started from
    hist,      \* the bytes pushed since the parser was last Fresh
    before,    \* the outcome of the push before the last one (Outcome)
    allAscii,  \* every byte pushed so far was below 0x80
    fault,     \* what went wrong in a push so far, if anything (push_fault)
    nones,     \* how many pushes in a row, up to the last one, returned none
    text,      \* the scalar values of the string being fed, if any
    input,     \* the bytes being fed, in order
    pos,       \* how many bytes of input have been pushed
    outs,      \* what each push of a byte of input returned, in order
    stateA,    \* Utf8Parser.state of parser A
    stateB,    \* Utf8Parser.state of parser B
    retA,      \* what parser A returned to the last byte pushed into both
    retB,      \* what parser B returned to the last byte pushed into both
    errA,      \* while B is fed alone: the kind of the error that A ended with
    apart,     \* A and B ended their own bytes with errors of different kinds
    phase,     \* "A": A is fed alone, "B": B is fed alone, "both": side by side
    probe,     \* a byte handed to the classifier on its own
    classified \* what ParsedByte::from_byte returned for probe, once called

parserVars == <<state, byte, ret, prev, hist, before, allAscii, fault, nones>>
streamVars == <<text, input, pos, outs>>
pairVars == <<stateA, stateB, retA, retB, errA, apart, phase>>
classVars == <<probe, classified>>
vars == <<parserVars, streamVars, pairVars, classVars>>

NoPush == [ok |-> TRUE, val |-> [some |-> FALSE, nopush |-> TRUE]]

\* A result without what it carries: "None", "Some" or the kind of the error.
Outcome(r) ==
    IF r = NoPush THEN "NoPush"
    ELSE IF ~r.ok THEN r.err.kind
    ELSE IF r.val.some THEN "Some" ELSE "None"

InitParser ==
    /\ state = new
    /\ byte = 0
    /\ ret = NoPush
    /\ prev = new
    /\ hist = <<>>
    /\ before = "NoPush"
    /\ allAscii = TRUE
    /\ fault = "none"
    /\ nones = 0

InitStream ==
    /\ text = <<>>
    /\ input = <<>>
    /\ pos = 0
    /\ outs = <<>>

InitPair ==
    /\ stateA = new
    /\ stateB = new
    /\ retA = NoPush
    /\ retB = NoPush
    /\ errA = "none"
    /\ apart = FALSE
    /\ phase = "A"

NotCalled == [called |-> FALSE]

InitClass ==
    /\ probe = 0
    /\ classified = NotCalled

\* parser.push(b), with the record of the call; after a panic there is no call
Push(b) ==
    \E r \in {push(state, b)} :
    /\ fault # "assert"
    /\ fault' = IF fault = "none" THEN push_fault(state, b) ELSE fault
    /\ state' = r.state
    /\ byte' = b
    /\ ret' = r.ret
    /\ prev' = state
    /\ hist' = IF state = Fresh THEN <<b>> ELSE Append(hist, b)
    /\ before' = Outcome(ret)
    /\ allAscii' = (allAscii /\ b < \h80)
    /\ nones' = IF r.ret # Ok(None) THEN 0
                ELSE IF nones < MaxRun THEN nones + 1 ELSE MaxRun

(***************************************************************************)
(* Spec: a new parser, any byte of Bytes pushed at any time.               *)
(***************************************************************************)
Init == InitParser /\ InitStream /\ InitPair /\ InitClass

PushAny == \E b \in Bytes : Push(b) /\ UNCHANGED <<streamVars, pairVars, classVars>>

Next == PushAny

Spec == Init /\ [][Next]_vars

(***************************************************************************)
(* The loop of tests::parse_str_by_bytes: the bytes of input pushed in     *)
(* order into one parser, the results collected.  The loop here goes on    *)
(* after an error, so that outs holds what every byte returned.            *)
(***************************************************************************)
Feed ==
    /\ pos < Len(input)
    /\ Push(input[pos + 1])
    /\ pos' = pos + 1
    /\ outs' = Append(outs, ret')
    /\ UNCHANGED <<text, input, pairVars, classVars>>

(***************************************************************************)
(* SpecRoundTrip: the input is the canonical encoding of a string of at    *)
(* most MaxLen scalar values near the boundaries of the encoding.          *)
(***************************************************************************)
SampleScalars ==
    { \h00, \h61, \h7F,            \* one byte: lowest, 'a', highest
      \h80, \hE9, \h7FF,           \* two bytes: lowest, e acute, highest
      \h800, \hD7FF, \hE000, \hFFFF,  \* three bytes, around the surrogates
      \h10000, \h1F98A, \h10FFFF } \* four bytes: lowest, fox face, highest

IsScalar(c) == c <= \h10FFFF /\ ~(c >= \hD800 /\ c <= \hDFFF)

Scalars ==
    {c \in UNION {(IF s >= ScalarSpread THEN s - ScalarSpread ELSE 0) .. (s + ScalarSpread) :
                    s \in SampleScalars} : IsScalar(c)}

Strings == UNION {[1 .. n -> Scalars] : n \in 0 .. MaxLen}

RECURSIVE EncodeString(_)
EncodeString(str) ==
    IF str = <<>> THEN <<>> ELSE Utf8Encode(Head(str)) \o EncodeString(Tail(str))

InitRoundTrip ==
    /\ InitParser
    /\ InitPair
    /\ InitClass
    /\ text \in Strings
    /\ input = EncodeString(text)
    /\ pos = 0
    /\ outs = <<>>

NextRoundTrip == Feed

SpecRoundTrip == InitRoundTrip /\ [][NextRoundTrip]_vars

(***************************************************************************)
(* SpecShaped: the input is one start byte of Bytes followed by as many    *)
(* continuation bytes of Bytes as its class asks for.                      *)
(***************************************************************************)
Continuations == {b \in Bytes : IsContinuation(b)}

\* the number of continuation bytes a start byte asks for
Following(b) == IF b < \hC0 THEN 0 ELSE IF b < \hE0 THEN 1 ELSE IF b < \hF0 THEN 2 ELSE 3

Shaped ==
    UNION {{<<s>> \o tail : tail \in [1 .. Following(s) -> Continuations]} :
             s \in {b \in Bytes : b >= \hC0 /\ b <= \hF7}}

InitShaped ==
    /\ InitParser
    /\ InitPair
    /\ InitClass
    /\ text = <<>>
    /\ input \in Shaped
    /\ pos = 0
    /\ outs = <<>>

NextShaped == Feed

SpecShaped == InitShaped /\ [][NextShaped]_vars

(***************************************************************************)
(* SpecPair: two parsers.  A is fed bytes of its own until a push returns  *)
(* an error, then B is fed bytes of its own until a push returns an error, *)
(* and from then on every byte is pushed into both.                        *)
(***************************************************************************)
PushA ==
    /\ phase = "A"
    /\ \E b \in Bytes : \E r \in {push(stateA, b)} :
          /\ stateA' = r.state
          /\ errA' = IF r.ret.ok THEN errA ELSE r.ret.err.kind
          /\ phase' = IF r.ret.ok THEN "A" ELSE "B"
    /\ UNCHANGED <<stateB, retA, retB, apart, parserVars, streamVars, classVars>>

PushB ==
    /\ phase = "B"
    /\ \E b \in Bytes : \E r \in {push(stateB, b)} :
          /\ stateB' = r.state
          /\ apart' = (~r.ret.ok /\ r.ret.err.kind # errA)
          /\ errA' = IF r.ret.ok THEN errA ELSE "none"
          /\ phase' = IF r.ret.ok THEN "B" ELSE "both"
    /\ UNCHANGED <<stateA, retA, retB, parserVars, streamVars, classVars>>

PushBoth ==
    /\ phase = "both"
    /\ \E b \in Bytes : \E ra \in {push(stateA, b)} : \E rb \in {push(stateB, b)} :
          /\ stateA' = ra.state
          /\ retA' = ra.ret
          /\ stateB' = rb.state
          /\ retB' = rb.ret
    /\ UNCHANGED <<errA, apart, phase, parserVars, streamVars, classVars>>

NextPair == PushA \/ PushB \/ PushBoth

SpecPair == Init /\ [][NextPair]_vars

(***************************************************************************)
(* SpecClassify: ParsedByte::from_byte called once on any byte.            *)
(***************************************************************************)
InitClassify ==
    /\ InitParser
    /\ InitStream
    /\ InitPair
    /\ probe \in 0 .. (U8 - 1)
    /\ classified = NotCalled

Classify ==
    /\ classified = NotCalled
    /\ classified' = from_byte(probe)
    /\ UNCHANGED <<probe, parserVars, streamVars, pairVars>>

NextClassify == Classify

SpecClassify == InitClassify /\ [][NextClassify]_vars

Pushed == ret # NoPush
IsErr(r, kind) == ~r.ok /\ r.err.kind = kind

(***************************************************************************)
(* Claims about one parser under arbitrary input (Spec).                   *)
(***************************************************************************)

\* C4: whenever push returns an error, of whatever kind and from whatever
\* state, the parser is Fresh right after that push.
C4_ResetOnError == ~ret.ok => state = Fresh

\* an error that push_inner_impl returns with the state still TwoLeft
C4_Witness ==
    /\ prev.tag = "TwoLeft"
    /\ ret = Err(OverlongEncoding)
    /\ state = Fresh

\* C5: whenever push returns a character c, the bytes pushed since the parser
\* was last Fresh, the current one included, are the canonical encoding of c.
C5_UniqueEncoding ==
    (ret.ok /\ ret.val.some) => hist = Utf8Encode(ret.val.char)

C5_Witness ==
    /\ ret = Ok(Some(\h10000))
    /\ hist = <<\hF0, \h90, \h80, \h80>>

\* C6: a byte in 0xF8..0xFF pushed in any state returns an InvalidByte error
\* and leaves the parser Fresh.
C6_InvalidByte ==
    (Pushed /\ IsUnclassified(byte)) => (IsErr(ret, "InvalidByte") /\ state = Fresh)

C6_Witness ==
    /\ prev.tag = "TwoLeft"
    /\ byte = \hFE
    /\ IsErr(ret, "InvalidByte")
    /\ state = Fresh

\* C7: a byte below 0x80 pushed into a Fresh parser returns the character with
\* that code point and leaves the parser Fresh; hence as long as only such
\* bytes have been pushed into a new parser every push returned a character.
C7_Ascii ==
    /\ (Pushed /\ prev = Fresh /\ IsAscii(byte)) =>
           (ret = Ok(Some(byte)) /\ state = Fresh)
    /\ (Pushed /\ allAscii) => (ret.ok /\ ret.val.some)

C7_Witness ==
    /\ allAscii
    /\ before = "Some"
    /\ byte = \h61
    /\ ret = Ok(Some(\h61))

\* C8: a byte of class Single, Double, Triple or Quadruple pushed while a
\* sequence is in progress returns an UnexpectedStartByte error and leaves the
\* parser Fresh (the byte does not start a sequence); an ASCII byte pushed
\* right after such an error is returned as its character.
C8_Interruption ==
    /\ (Pushed /\ prev.tag # "Fresh" /\ IsStart(byte)) =>
           (IsErr(ret, "UnexpectedStartByte") /\ state = Fresh)
    /\ (before = "UnexpectedStartByte" /\ IsAscii(byte)) => ret = Ok(Some(byte))

C8_Witness ==
    /\ before = "UnexpectedStartByte"
    /\ byte = \h61
    /\ ret = Ok(Some(\h61))

\* C9: a continuation byte pushed into a Fresh parser returns an
\* UnexpectedContinuationByte error and leaves the parser Fresh.
C9_StrayContinuation ==
    (Pushed /\ prev = Fresh /\ IsContinuation(byte)) =>
        (IsErr(ret, "UnexpectedContinuationByte") /\ state = Fresh)

C9_Witness ==
    /\ before = "OverlongEncoding"
    /\ prev = Fresh
    /\ byte = \h80
    /\ IsErr(ret, "UnexpectedContinuationByte")
    /\ state = Fresh


(***************************************************************************)
(* Claims about the bytes of one string or one sequence pushed in order.   *)
(***************************************************************************)
\* what the pushes of the bytes of a scalar return when it is decoded
Decoded(c) == [i \in 1 .. Len(Utf8Encode(c)) |->
                  IF i < Len(Utf8Encode(c)) THEN Ok(None) ELSE Ok(Some(c))]

RECURSIVE DecodedString(_)
DecodedString(str) ==
    IF str = <<>> THEN <<>> ELSE Decoded(Head(str)) \o DecodedString(Tail(str))

\* C1: the bytes of the canonical encoding of a string of scalar values,
\* pushed one at a time into a new parser, never return an error; the push of
\* the last byte of each scalar returns that scalar, every earlier push of
\* its bytes returns none, so the characters returned are the string.
C1_RoundTrip == outs = SubSeq(DecodedString(text), 1, pos)

C1_Witness ==
    /\ text = <<\h10FFFF, \hE9>>
    /\ pos = Len(input)
    /\ outs = <<Ok(None), Ok(None), Ok(None), Ok(Some(\h10FFFF)), Ok(None), Ok(Some(\hE9))>>

\* the value the payload bits of a start byte and its continuation bytes spell
RECURSIVE Assembled(_)
Assembled(seq) ==
    IF Len(seq) = 1
    THEN (IF seq[1] < \hE0 THEN seq[1] - \hC0
          ELSE IF seq[1] < \hF0 THEN seq[1] - \hE0 ELSE seq[1] - \hF0)
    ELSE Assembled(SubSeq(seq, 1, Len(seq) - 1)) * 64 + (seq[Len(seq)] - \h80)

\* the least code point that needs a sequence of n bytes
MinimumFor(n) == IF n = 2 THEN \h80 ELSE IF n = 3 THEN \h800 ELSE \h10000

IsChar(r) == r.ok /\ r.val.some

\* all of r up to its last element are none
NoneBeforeLast(r) == \A i \in 1 .. Len(r) - 1 : r[i] = Ok(None)

\* C2: a start byte with as many continuation bytes as its class asks for,
\* spelling a value below the minimum for that length: no push returns a
\* character and the first error returned is OverlongEncoding; spelling
\* exactly the minimum: the sequence decodes to that character.
C2_Overlong ==
    /\ Assembled(input) < MinimumFor(Len(input)) =>
          /\ \A i \in 1 .. Len(outs) : ~IsChar(outs[i])
          /\ \A i \in 1 .. Len(outs) :
                (~outs[i].ok /\ \A j \in 1 .. i - 1 : outs[j].ok) =>
                    outs[i] = Err(OverlongEncoding)
          /\ pos = Len(input) => \E i \in 1 .. Len(outs) : ~outs[i].ok
    /\ (Assembled(input) = MinimumFor(Len(input)) /\ pos = Len(input)) =>
          /\ NoneBeforeLast(outs)
          /\ outs[pos] = Ok(Some(MinimumFor(Len(input))))

\* 0xFFFF spelt in four bytes
C2_Witness ==
    /\ input = <<\hF0, \h8F, \hBF, \hBF>>
    /\ pos = Len(input)
    /\ outs[1] = Ok(None)
    /\ outs[2] = Err(OverlongEncoding)

\* C3: a start byte with as many continuation bytes as its class asks for,
\* not overlong, spelling a value above 0x10FFFF or a surrogate: every push
\* before the last returns none and the last returns InvalidChar with the
\* value.
C3_InvalidChar ==
    (/\ Assembled(input) >= MinimumFor(Len(input))
     /\ ~IsScalar(Assembled(input))) =>
        /\ pos < Len(input) => \A i \in 1 .. Len(outs) : outs[i] = Ok(None)
        /\ pos = Len(input) =>
              /\ NoneBeforeLast(outs)
              /\ outs[pos] = Err(InvalidChar(Assembled(input)))

\* the first surrogate, 0xD800
C3_Witness ==
    /\ input = <<\hED, \hA0, \h80>>
    /\ pos = Len(input)
    /\ outs = <<Ok(None), Ok(None), Err(InvalidChar(\hD800))>>

(***************************************************************************)
(* Claims about two parsers (SpecPair).                                    *)
(***************************************************************************)
\* C10: two parsers that each returned an error, after bytes of their own,
\* return the same to every byte pushed into both from then on.
C10_ErrorIsolation == phase = "both" => retA = retB

\* after errors of different kinds, both decode U+10000
C10_Witness ==
    /\ phase = "both"
    /\ apart
    /\ retA = Ok(Some(\h10000))
    /\ retB = Ok(Some(\h10000))


(***************************************************************************)
(* Claims about the classifier (SpecClassify).                             *)
(***************************************************************************)
\* the five classes with the prefix of each, the number of payload bits below
\* it and the variant of ParsedByte that stands for it
Classes ==
    { [kind |-> "Single", prefix |-> \b0, bits |-> 7, variant |-> "Single"],
      [kind |-> "Continuation", prefix |-> \b10, bits |-> 6, variant |-> "ContinuationByte"],
      [kind |-> "Double", prefix |-> \b110, bits |-> 5, variant |-> "StartDouble"],
      [kind |-> "Triple", prefix |-> \b1110, bits |-> 4, variant |-> "StartTriple"],
      [kind |-> "Quadruple", prefix |-> \b11110, bits |-> 3, variant |-> "StartQuadruple"] }

\* the classes whose prefix the top bits of b spell
ClassesOf(b) == {c \in Classes : b \div (2 ^ c.bits) = c.prefix}

\* the orders in which the five kinds can be tried
Orders == {o \in [1 .. 5 -> {c.kind : c \in Classes}] : \A i, j \in 1 .. 5 : o[i] = o[j] => i = j}

\* the first kind of order o, from index i on, that Utf8ByteType::matches b
RECURSIVE FirstMatch(_, _, _)
FirstMatch(o, b, i) ==
    IF i > Len(o) THEN "none"
    ELSE IF matches(o[i], b) THEN o[i] ELSE FirstMatch(o, b, i + 1)

\* C11: of the five classes at most one matches a byte, none exactly for
\* 0xF8..0xFF; the classifier returns the class that matches with the bits
\* of the byte below the prefix as payload, and rejects the byte that none
\* matches; the kind found does not depend on the order the kinds are tried in.
C11_Classification ==
    classified # NotCalled =>
        /\ Cardinality({k \in {c.kind : c \in Classes} : matches(k, probe)}) <= 1
        /\ {k \in {c.kind : c \in Classes} : matches(k, probe)}
               = {c.kind : c \in ClassesOf(probe)}
        /\ ClassesOf(probe) = {} <=> IsUnclassified(probe)
        /\ \A c \in ClassesOf(probe) :
               classified = Ok(ParsedByte(c.variant, probe % (2 ^ c.bits)))
        /\ ClassesOf(probe) = {} => ~classified.ok
        /\ \A o \in Orders :
               FirstMatch(o, probe, 1) = (IF of(probe).ok THEN of(probe).val ELSE "none")

\* 0b110_11001 is StartDouble(0b11001), as in tests::conversion
C11_Witness ==
    /\ probe = \b11011001
    /\ classified = Ok(ParsedByte("StartDouble", \b11001))


(***************************************************************************)
(* Further claims about one parser under arbitrary input (Spec).           *)
(***************************************************************************)
\* one of the three outcomes of push: none, a char, one of the five errors
IsOutcome(r) ==
    IF r.ok THEN r.val = None \/ (r.val.some /\ r.val = Some(r.val.char) /\ IsScalar(r.val.char))
    ELSE \/ r.err = OverlongEncoding
         \/ /\ r.err.kind \in {"InvalidByte", "UnexpectedStartByte", "UnexpectedContinuationByte"}
            /\ r.err.val \in 0 .. (U8 - 1)
         \/ r.err.kind = "InvalidChar" /\ ~IsScalar(r.err.val)

\* C12: whatever bytes are pushed into one parser, every push returns one of
\* the three outcomes, the assertions of push_byte hold at every call of it
\* and no shift of push_byte or of the overlong tests loses a bit.
C12_NoFault ==
    /\ fault = "none"
    /\ Pushed => IsOutcome(ret)

\* push_byte called with the largest accumulator and payload there are
C12_Witness ==
    /\ prev = OneLeft(\h7FFF)
    /\ byte = \hBF
    /\ ret = Err(InvalidChar(\h1FFFFF))
    /\ fault = "none"


\* C13: the byte that an InvalidByte, UnexpectedStartByte or
\* UnexpectedContinuationByte error carries is the byte that was pushed.
C13_ErrorContext ==
    (/\ Pushed
     /\ ~ret.ok
     /\ ret.err.kind \in {"InvalidByte", "UnexpectedStartByte", "UnexpectedContinuationByte"})
        => ret.err.val = byte


\* the state that awaits one continuation byte less than prev, holding acc
OneLess(from, acc) == IF from.tag = "ThreeLeft" THEN TwoLeft(acc) ELSE OneLeft(acc)

\* (acc << 6) | v for the payload v of continuation byte b
Extended(acc, b) == acc * 64 + (b - \h80)

\* C14, as claimed: a continuation byte pushed while two or three are awaited
\* returns none and moves to the state awaiting one less, with (acc << 6) | v;
\* OverlongEncoding and InvalidChar are returned only by a push made while one
\* continuation byte is awaited.
C14_AsClaimed ==
    /\ (Pushed /\ prev.tag \in {"TwoLeft", "ThreeLeft"} /\ IsContinuation(byte)) =>
           (ret = Ok(None) /\ state = OneLess(prev, Extended(prev.acc, byte)))
    /\ (IsErr(ret, "OverlongEncoding") \/ IsErr(ret, "InvalidChar")) => prev.tag = "OneLeft"

\* a continuation byte after which every value the sequence can still spell
\* is below the minimum for its length
OverlongAlready(from, acc) ==
    \/ from.tag = "TwoLeft" /\ acc * 64 < \h800
    \/ from.tag = "ThreeLeft" /\ acc * 4096 < \h10000

\* C14, amended: a continuation byte pushed while two or three are awaited
\* returns OverlongEncoding and leaves the parser Fresh when (acc << 6) | v is
\* already below the minimum for the length (shifted to its place), and
\* otherwise returns none and moves to the state awaiting one less, with
\* (acc << 6) | v; InvalidChar is returned only by a push made while one
\* continuation byte is awaited, OverlongEncoding only by the push of a
\* continuation byte while one, two or three are awaited.
C14_Continuation ==
    /\ (Pushed /\ prev.tag \in {"TwoLeft", "ThreeLeft"} /\ IsContinuation(byte)) =>
           IF OverlongAlready(prev, Extended(prev.acc, byte))
           THEN ret = Err(OverlongEncoding) /\ state = Fresh
           ELSE ret = Ok(None) /\ state = OneLess(prev, Extended(prev.acc, byte))
    /\ IsErr(ret, "InvalidChar") => prev.tag = "OneLeft"
    /\ IsErr(ret, "OverlongEncoding") => (prev.tag # "Fresh" /\ IsContinuation(byte))

\* F0 8F: OverlongEncoding at the first of three continuation bytes
C14_Witness ==
    /\ prev = ThreeLeft(0)
    /\ byte = \h8F
    /\ ret = Err(OverlongEncoding)
    /\ state = Fresh


\* C15: the accumulator of every state that awaits continuation bytes is
\* below 2^21, and so is every value assembled when the last continuation
\* byte of a sequence is pushed, whether it is returned as a character, as
\* the value of an InvalidChar error, or dropped as overlong.
C15_AccumulatorBound ==
    /\ state.tag # "Fresh" => state.acc < 2 ^ 21
    /\ (Pushed /\ prev.tag = "OneLeft" /\ IsContinuation(byte)) =>
           /\ push_byte(prev.acc, byte - \h80) < 2 ^ 21
           /\ Extended(prev.acc, byte) < 2 ^ 21
    /\ (Pushed /\ ret.ok /\ ret.val.some) => ret.val.char < 2 ^ 21
    /\ IsErr(ret, "InvalidChar") => ret.err.val < 2 ^ 21

\* F7 BF BF BF: the largest value that can be assembled, 2^21 - 1
C15_Witness ==
    /\ prev = OneLeft(2 ^ 15 - 1)
    /\ byte = \hBF
    /\ ret = Err(InvalidChar(2 ^ 21 - 1))


\* C16: after every push the parser awaits continuation bytes exactly when
\* the push returned none; a push that returned a character or an error has
\* left the parser Fresh.
C16_OutcomeState ==
    Pushed =>
        /\ (state # Fresh) <=> (ret = Ok(None))
        /\ (~ret.ok \/ ret.val.some) => state = Fresh

\* C2 80: the push that completes a sequence returns its character and
\* leaves the parser Fresh, after a push that returned none
C16_Witness ==
    /\ prev.tag = "OneLeft"
    /\ before = "None"
    /\ ret = Ok(Some(\h80))
    /\ state = Fresh


\* how many continuation bytes a state awaits
Left(s) ==
    IF s.tag = "OneLeft" THEN 1
    ELSE IF s.tag = "TwoLeft" THEN 2
    ELSE IF s.tag = "ThreeLeft" THEN 3
    ELSE 0

\* C17: never more than 3 pushes in a row return none, so that every 4
\* pushes in a row hold one that returned a character or an error; a push
\* made while continuation bytes are awaited leaves the parser Fresh or
\* awaiting one less, so that the parser is Fresh again within 4 pushes;
\* and no push has panicked, so that the next byte can always be pushed.
C17_BoundedResponse ==
    /\ nones <= 3
    /\ nones + Left(state) <= 4
    /\ (Pushed /\ prev # Fresh) => (state = Fresh \/ Left(state) = Left(prev) - 1)
    /\ (state # Fresh) => nones >= 1
    /\ fault # "assert"

\* F1 90 80: three pushes in a row have returned none
C17_Witness ==
    /\ nones = 3
    /\ hist = <<\hF1, \h90, \h80>>
    /\ ret = Ok(None)
    /\ state.tag = "OneLeft"

=============================================================================
